---- MODULE Spec2Model ----
(***************************************************************************)
(* Icarus DOM: the node graph of src/dom.rs (Rc<Node> with a Weak parent   *)
(* back-reference and an owned children vector) and the html5ever TreeSink *)
(* adapter DomSink of src/html/parser.rs that edits it.                    *)
(*                                                                         *)
(* A node is an index of Ids.  An Rc<Node> is the index; Rc::ptr_eq is     *)
(* equality of indices.  A Weak<Node> is modelled by what upgrade()        *)
(* returns: the index while the node is allocated, NoNode otherwise.       *)
(* Reference counting is modelled by Collect: a node is freed when no      *)
(* handle and no children slot of an allocated node holds it (so cycles    *)
(* of children leak, as with Rc).                                          *)
(*                                                                         *)
(* NodeData is kept as the variant and one string: the local name of an    *)
(* Element, the contents of a Text or Comment, the name of a Doctype.      *)
(* Attributes, namespaces and the doctype identifiers are stored by the    *)
(* code and read by no operation modelled here.                            *)
(*                                                                         *)
(* Spec is the sink driven with any handles it has returned.  SpecAppend,  *)
(* SpecMove and SpecReparent are the sink driven with some of its          *)
(* operations only; SpecAttach and SpecNode call the functions of Node     *)
(* directly.  Every run makes a bounded number of editing calls (fuel).    *)
(***************************************************************************)
EXTENDS Integers, Sequences, FiniteSets, TLC

\* ---------------------------------------------------------------- bounds
\* nodes the run may allocate, the root included
MaxNodes == 5
\* calls of one run that edit the node graph or the set of handles
MaxSteps == 4
\* the same for the runs that only create and append
MaxAppendSteps == 4
\* the same for the runs that call the Node functions directly
MaxNodeSteps == 4
\* the same for the runs that only create, append, detach and reparent
MaxMoveSteps == 6
\* the same for the runs that only create, append and reparent
MaxReparentSteps == 5
\* the same for the runs that only create, append, detach and drop handles
MaxDetachSteps == 5
\* the same for the runs that create, append and keep references into the tree
MaxHoldSteps == 5
\* the same for the runs that mix the operations that do not restructure
MaxQuietSteps == 3
\* the same for the runs that build a document and read its text
MaxTextSteps == 4
\* the same for the runs that build a document and search it by tag name
MaxTagSteps == 4
\* the same for the runs that build a document and traverse it
MaxTraverseSteps == 3
\* the frames the recursive traversals can nest before the thread's stack is
\* exhausted: more than any path of distinct nodes needs
StackDepth == MaxNodes + 2
\* the local names of the searched documents and the names searched for
QueryNames == {<<"p">>, <<"P">>, <<"q">>}

Ids == 1..MaxNodes

\* Document::new(): the root is the first allocation
Root == 1
\* Weak::new(): a parent reference that cannot be upgraded
NoNode == 0

\* character data handed in by the parser (StrTendril values)
Texts == {<<"a">>, <<"b">>}
\* local names handed in by the parser
TagNames == {<<"p">>}
\* doctype names handed in by the parser
DoctypeNames == {<<"h">>}
\* QuirksMode values handed in by the parser
QuirksModes == {"Quirks", "NoQuirks"}
\* comment data handed in by the parser
CommentTexts == {<<"c">>}

VARIABLES
    kind,        \* Node.data, the variant: "Free" is an index not yet allocated
    data,        \* Node.data, the payload: local name, contents or doctype name
    parent,      \* Node.parent
    children,    \* Node.children
    handles,     \* the Rc<Node> the caller (the parser) currently holds
    quirks_mode, \* DomSink.quirks_mode
    panicked,    \* a panic!/expect has unwound the parse
    last,        \* history: the operation that produced this state
    fuel         \* the number of editing calls the run may still make

vars == <<kind, data, parent, children, handles, quirks_mode, panicked, last, fuel>>

\* ------------------------------------------------------------- sequences
Range(s) == {s[i] : i \in 1..Len(s)}

Front(s) == SubSeq(s, 1, Len(s) - 1)

\* Vec::insert(pos, x) with pos counted from 1
InsertAt(s, pos, x) == SubSeq(s, 1, pos - 1) \o <<x>> \o SubSeq(s, pos, Len(s))

\* s without its entry at position pos
RemoveAt(s, pos) == SubSeq(s, 1, pos - 1) \o SubSeq(s, pos + 1, Len(s))

\* iter().position(|n| Rc::ptr_eq(n, x)): first index of x, 0 for None
position(s, x) ==
    IF x \in Range(s)
    THEN CHOOSE i \in 1..Len(s) : s[i] = x /\ \A j \in 1..(i - 1) : s[j] # x
    ELSE 0

\* ------------------------------------------------------------------ heap
\* The node graph as one value: the four per-node fields.
Heap == [kind |-> kind, data |-> data, parent |-> parent, children |-> children]

Allocated(H) == {n \in Ids : H.kind[n] \notin {"Free", "Freed"}}

CanAlloc(H) == \E n \in Ids : H.kind[n] = "Free"

\* the index Rc::new returns: indices are handed out in order, never reused
FreshId(H) == CHOOSE n \in Ids : H.kind[n] = "Free" /\ \A m \in 1..(n - 1) : H.kind[m] # "Free"

\* Node::new(data)
Node_new_attached(H, kd, dt) ==
    LET id == FreshId(H)
    IN  [H EXCEPT !.kind[id] = kd, !.data[id] = dt,
                  !.parent[id] = Root, !.children[id] = <<>>]

Node_new(H, kd, dt) ==
    LET id == FreshId(H)
    IN  [H EXCEPT !.kind[id] = kd, !.data[id] = dt,
                  !.parent[id] = NoNode, !.children[id] = <<>>]

\* Weak::upgrade() of n's parent field
upgrade(H, n) == IF H.parent[n] # NoNode /\ H.parent[n] \in Allocated(H) THEN H.parent[n] ELSE NoNode

\* Node::append_child(parent, child)
append_child(H, p, c) ==
    [H EXCEPT !.parent[c] = p, !.children[p] = Append(@, c)]

insert_before_nofallback(H, p, c, r) ==
    LET pos == position(H.children[p], r)
    IN  IF pos # 0
        THEN [H EXCEPT !.parent[c] = p, !.children[p] = InsertAt(@, pos, c)]
        ELSE [H EXCEPT !.parent[c] = p]

\* Node::insert_before(parent, child, reference)
insert_before(H, p, c, r) ==
    LET pos == position(H.children[p], r)
    IN  IF pos # 0
        THEN [H EXCEPT !.parent[c] = p, !.children[p] = InsertAt(@, pos, c)]
        ELSE [H EXCEPT !.parent[c] = p, !.children[p] = Append(@, c)]

remove_child_first(H, p, c) ==
    LET pos == position(H.children[p], c)
    IN  IF pos # 0 THEN [H EXCEPT !.children[p] = RemoveAt(@, pos)] ELSE H

\* Node::remove_child(parent, child): retain drops every entry equal to child
remove_child(H, p, c) ==
    [H EXCEPT !.children[p] = SelectSeq(@, LAMBDA n : n # c)]

\* Rc drop: free every node that no handle and no children slot of an
\* allocated node holds, repeatedly; the Document owns the root.
RECURSIVE Collect(_, _)
Collect(H, hs) ==
    LET live == Allocated(H)
        dead == {n \in live : /\ n # Root
                              /\ n \notin hs
                              /\ \A m \in live : n \notin Range(H.children[m])}
    IN  IF dead = {}
        THEN [H EXCEPT !.parent = [n \in Ids |-> IF H.parent[n] \in live THEN H.parent[n] ELSE NoNode]]
        ELSE Collect([kind     |-> [n \in Ids |-> IF n \in dead THEN "Freed" ELSE H.kind[n]],
                      data     |-> [n \in Ids |-> IF n \in dead THEN <<>> ELSE H.data[n]],
                      parent   |-> [n \in Ids |-> IF n \in dead THEN NoNode ELSE H.parent[n]],
                      children |-> [n \in Ids |-> IF n \in dead THEN <<>> ELSE H.children[n]]],
                     hs)

\* ------------------------------------------------------------- history
\* op, x, y, z, text: the call and its arguments (for a create, x is the result;
\* for remove_from_parent, z is the parent the target resolved to);
\* owners: for remove_from_parent, the nodes that held the target before the call;
\* before: for reparent_children, the children of node before the call;
\* run, frags, before, base: for append with text, the number of text appends to
\* the same parent made back to back up to this one, their fragments in order,
\* and what the parent held when the first was made: its children without a
\* closing Text child, and that Text child's contents
Op(name, x, y, z, t) ==
    [op |-> name, x |-> x, y |-> y, z |-> z, text |-> t, owners |-> {},
     run |-> 0, frags |-> <<>>, before |-> <<>>, base |-> <<>>]

NoOp == Op("init", NoNode, NoNode, NoNode, <<>>)

\* the nodes whose children vector contains n
Owners(H, n) == {m \in Allocated(H) : n \in Range(H.children[m])}

\* the step leaves H2 as the node graph, hs as the handles held
Commit(H2, hs) ==
    LET G == Collect(H2, hs)
    IN  /\ fuel > 0
        /\ fuel' = fuel - 1
        /\ kind' = G.kind
        /\ data' = G.data
        /\ parent' = G.parent
        /\ children' = G.children
        /\ handles' = hs

\* the history of an append(p, child) made in the current state
AppendOp(p, child) ==
    LET ch == children[p]
        o  == Op("append", p, child.node, NoNode, child.text)
    IN  IF child.tag = "AppendNode" THEN o
        ELSE IF last.op = "append" /\ last.run >= 1 /\ last.x = p
        THEN [o EXCEPT !.run = last.run + 1, !.frags = last.frags \o child.text,
                       !.before = last.before, !.base = last.base]
        ELSE IF Len(ch) > 0 /\ kind[ch[Len(ch)]] = "Text"
        THEN [o EXCEPT !.run = 1, !.frags = child.text,
                       !.before = Front(ch), !.base = data[ch[Len(ch)]]]
        ELSE [o EXCEPT !.run = 1, !.frags = child.text, !.before = ch]

\* ---------------------------------------------------------------- Init
\* DomSink::new(): Document::new() allocates the root, which get_document
\* hands out at any time
InitWith(f) ==
    /\ kind = [n \in Ids |-> IF n = Root THEN "Document" ELSE "Free"]
    /\ data = [n \in Ids |-> <<>>]
    /\ parent = [n \in Ids |-> NoNode]
    /\ children = [n \in Ids |-> <<>>]
    /\ handles = {Root}
    /\ quirks_mode = "NoQuirks"
    /\ panicked = FALSE
    /\ last = NoOp
    /\ fuel = f

Init == InitWith(MaxSteps)

\* ------------------------------------------------- the sink, as functions
\* NodeOrText<Handle>
AppendNode(n) == [tag |-> "AppendNode", node |-> n, text |-> <<>>]
AppendText(t) == [tag |-> "AppendText", node |-> NoNode, text |-> t]

NodeOrText(hs) == {AppendNode(n) : n \in hs} \cup {AppendText(t) : t \in Texts}

\* a Node::new is ahead on the path the call takes
Allocates(child) == child.tag = "AppendText"

append_text_nomerge(H, p, t) ==
    append_child(Node_new(H, "Text", t), p, FreshId(H))

append_text_nopop(H, p, t) ==
    LET ch == H.children[p]
    IN  IF Len(ch) > 0 /\ H.kind[ch[Len(ch)]] = "Text"
        THEN append_child(Node_new(H, "Text", H.data[ch[Len(ch)]] \o t), p, FreshId(H))
        ELSE append_child(Node_new(H, "Text", t), p, FreshId(H))

append_text_inplace(H, p, t) ==
    LET ch == H.children[p]
    IN  IF Len(ch) > 0 /\ H.kind[ch[Len(ch)]] = "Text"
        THEN [H EXCEPT !.data[ch[Len(ch)]] = @ \o t]
        ELSE append_child(Node_new(H, "Text", t), p, FreshId(H))

\* DomSink::append, the AppendText branch
append_text(H, p, t) ==
    LET ch == H.children[p]
    IN  IF Len(ch) > 0 /\ H.kind[ch[Len(ch)]] = "Text"
        THEN LET new_contents == H.data[ch[Len(ch)]] \o t
                 popped == [H EXCEPT !.children[p] = Front(@)]
             IN  append_child(Node_new(popped, "Text", new_contents), p, FreshId(popped))
        ELSE append_child(Node_new(H, "Text", t), p, FreshId(H))

\* DomSink::append(parent, child)
sink_append(H, p, child) ==
    IF child.tag = "AppendNode"
    THEN append_child(H, p, child.node)
    ELSE append_text(H, p, child.text)

\* DomSink::append_before_sibling(sibling, new_node), once the parent is resolved
sink_append_before_sibling(H, sibling, new_node) ==
    LET p == upgrade(H, sibling)
    IN  IF new_node.tag = "AppendNode"
        THEN insert_before(H, p, new_node.node, sibling)
        ELSE insert_before(Node_new(H, "Text", new_node.text), p, FreshId(H), sibling)

remove_from_parent_first(H, target) ==
    IF upgrade(H, target) # NoNode
    THEN remove_child_first(H, upgrade(H, target), target)
    ELSE H

\* DomSink::remove_from_parent(target)
sink_remove_from_parent(H, target) ==
    IF upgrade(H, target) # NoNode
    THEN remove_child(H, upgrade(H, target), target)
    ELSE H

RECURSIVE append_all(_, _, _)
\* the loop of reparent_children: append_child for each collected child, in order
append_all(H, p, cs) ==
    IF cs = <<>> THEN H
    ELSE append_all(append_child(H, p, Head(cs)), p, Tail(cs))

reparent_children_keep(H, node, new_parent) ==
    append_all(H, new_parent, H.children[node])

\* DomSink::reparent_children(node, new_parent)
sink_reparent_children(H, node, new_parent) ==
    LET cs == H.children[node]
        cleared == [H EXCEPT !.children[node] = <<>>]
    IN  append_all(cleared, new_parent, cs)

\* --------------------------------------------------- the sink, as actions
\* DomSink::get_document
get_document ==
    /\ ~panicked
    /\ last' = Op("get_document", Root, NoNode, NoNode, <<>>)
    /\ UNCHANGED <<kind, data, parent, children, handles, quirks_mode, panicked, fuel>>

\* DomSink::create_element
create_element(name) ==
    /\ ~panicked
    /\ CanAlloc(Heap)
    /\ Commit(Node_new(Heap, "Element", name), handles \cup {FreshId(Heap)})
    /\ last' = Op("create_element", FreshId(Heap), NoNode, NoNode, name)
    /\ UNCHANGED <<quirks_mode, panicked>>

\* DomSink::create_comment
create_comment(text) ==
    /\ ~panicked
    /\ CanAlloc(Heap)
    /\ Commit(Node_new(Heap, "Comment", text), handles \cup {FreshId(Heap)})
    /\ last' = Op("create_comment", FreshId(Heap), NoNode, NoNode, text)
    /\ UNCHANGED <<quirks_mode, panicked>>

\* DomSink::create_pi: target and data are dropped, the comment is empty
create_pi(target, pidata) ==
    /\ ~panicked
    /\ CanAlloc(Heap)
    /\ Commit(Node_new(Heap, "Comment", <<>>), handles \cup {FreshId(Heap)})
    /\ last' = Op("create_pi", FreshId(Heap), NoNode, NoNode, <<>>)
    /\ UNCHANGED <<quirks_mode, panicked>>

\* DomSink::append
append(p, child) ==
    /\ ~panicked
    /\ Allocates(child) => CanAlloc(Heap)
    /\ Commit(sink_append(Heap, p, child), handles)
    /\ last' = AppendOp(p, child)
    /\ UNCHANGED <<quirks_mode, panicked>>

\* DomSink::append_based_on_parent_node: prev_element is ignored
append_based_on_parent_node(element, prev_element, child) ==
    /\ ~panicked
    /\ Allocates(child) => CanAlloc(Heap)
    /\ Commit(sink_append(Heap, element, child), handles)
    /\ last' = AppendOp(element, child)
    /\ UNCHANGED <<quirks_mode, panicked>>

\* DomSink::append_doctype_to_document
append_doctype_to_document(name) ==
    /\ ~panicked
    /\ CanAlloc(Heap)
    /\ Commit(append_child(Node_new(Heap, "Doctype", name), Root, FreshId(Heap)), handles)
    /\ last' = Op("append_doctype_to_document", FreshId(Heap), NoNode, NoNode, name)
    /\ UNCHANGED <<quirks_mode, panicked>>

\* DomSink::append_before_sibling: expect() panics when the parent does not upgrade
append_before_sibling(sibling, new_node) ==
    /\ ~panicked
    /\ IF upgrade(Heap, sibling) = NoNode
       THEN /\ panicked' = TRUE
            /\ UNCHANGED <<kind, data, parent, children, handles, fuel>>
            /\ last' = Op("append_before_sibling", sibling, NoNode, NoNode, <<>>)
       ELSE /\ Allocates(new_node) => CanAlloc(Heap)
            /\ Commit(sink_append_before_sibling(Heap, sibling, new_node), handles)
            /\ last' = Op("append_before_sibling", sibling, new_node.node, NoNode, new_node.text)
            /\ UNCHANGED panicked
    /\ UNCHANGED quirks_mode

\* DomSink::remove_from_parent
remove_from_parent(target) ==
    /\ ~panicked
    /\ Commit(sink_remove_from_parent(Heap, target), handles)
    /\ last' = [Op("remove_from_parent", target, NoNode, upgrade(Heap, target), <<>>)
                    EXCEPT !.owners = Owners(Heap, target)]
    /\ UNCHANGED <<quirks_mode, panicked>>

\* DomSink::reparent_children
reparent_children(node, new_parent) ==
    /\ ~panicked
    /\ Commit(sink_reparent_children(Heap, node, new_parent), handles)
    /\ last' = [Op("reparent_children", node, new_parent, NoNode, <<>>)
                    EXCEPT !.before = children[node]]
    /\ UNCHANGED <<quirks_mode, panicked>>

\* DomSink::elem_name: panics on a handle that is not an Element
elem_name(target) ==
    /\ ~panicked
    /\ panicked' = (kind[target] # "Element")
    /\ last' = Op("elem_name", NoNode, NoNode, NoNode, <<>>)
    /\ UNCHANGED <<kind, data, parent, children, handles, quirks_mode, fuel>>

\* DomSink::get_template_contents: target.clone()
get_template_contents(target) ==
    /\ ~panicked
    /\ last' = Op("get_template_contents", target, target, NoNode, <<>>)
    /\ UNCHANGED <<kind, data, parent, children, handles, quirks_mode, panicked, fuel>>

\* DomSink::same_node: Rc::ptr_eq
same_node(x, y) ==
    /\ ~panicked
    /\ last' = Op("same_node", NoNode, NoNode, NoNode, <<>>)
    /\ UNCHANGED <<kind, data, parent, children, handles, quirks_mode, panicked, fuel>>

\* DomSink::set_quirks_mode
set_quirks_mode(mode) ==
    /\ ~panicked
    /\ quirks_mode' = mode
    /\ last' = Op("set_quirks_mode", NoNode, NoNode, NoNode, <<>>)
    /\ UNCHANGED <<kind, data, parent, children, handles, panicked, fuel>>

\* DomSink::add_attrs_if_missing: empty body
add_attrs_if_missing(target) ==
    /\ ~panicked
    /\ last' = Op("add_attrs_if_missing", NoNode, NoNode, NoNode, <<>>)
    /\ UNCHANGED <<kind, data, parent, children, handles, quirks_mode, panicked, fuel>>

\* DomSink::parse_error: empty body
parse_error ==
    /\ ~panicked
    /\ last' = Op("parse_error", NoNode, NoNode, NoNode, <<>>)
    /\ UNCHANGED <<kind, data, parent, children, handles, quirks_mode, panicked, fuel>>

\* the caller lets go of a Handle (Rc drop)
drop_handle(h) ==
    /\ ~panicked
    /\ Commit(Heap, handles \ {h})
    /\ last' = Op("drop_handle", NoNode, NoNode, NoNode, <<>>)
    /\ UNCHANGED <<quirks_mode, panicked>>

Next ==
    \/ get_document
    \/ \E name \in TagNames : create_element(name)
    \/ \E text \in CommentTexts : create_comment(text)
    \/ \E t \in Texts, d \in Texts : create_pi(t, d)
    \/ \E p \in handles : \E child \in NodeOrText(handles) : append(p, child)
    \/ \E e \in handles, pe \in handles : \E child \in NodeOrText(handles) :
           append_based_on_parent_node(e, pe, child)
    \/ \E name \in DoctypeNames : append_doctype_to_document(name)
    \/ \E s \in handles : \E nn \in NodeOrText(handles) : append_before_sibling(s, nn)
    \/ \E target \in handles : remove_from_parent(target)
    \/ \E node \in handles, np \in handles : reparent_children(node, np)
    \/ \E target \in handles : elem_name(target)
    \/ \E target \in handles : get_template_contents(target)
    \/ \E x \in handles, y \in handles : same_node(x, y)
    \/ \E mode \in QuirksModes : set_quirks_mode(mode)
    \/ \E target \in handles : add_attrs_if_missing(target)
    \/ parse_error
    \/ \E h \in handles \ {Root} : drop_handle(h)

Spec == Init /\ [][Next]_vars

\* ------------------------------------- runs that only create and append
InitAppend == InitWith(MaxAppendSteps)

NextAppend ==
    \/ \E name \in TagNames : create_element(name)
    \/ \E text \in CommentTexts : create_comment(text)
    \/ \E t \in Texts, d \in Texts : create_pi(t, d)
    \/ \E p \in handles : \E child \in NodeOrText(handles) : append(p, child)
    \/ \E e \in handles, pe \in handles : \E child \in NodeOrText(handles) :
           append_based_on_parent_node(e, pe, child)
    \/ \E name \in DoctypeNames : append_doctype_to_document(name)

SpecAppend == InitAppend /\ [][NextAppend]_vars

\* ------------------------ runs that only create, append, detach, reparent
InitMove == InitWith(MaxMoveSteps)

NextMove ==
    \/ \E name \in TagNames : create_element(name)
    \/ \E p \in handles : \E child \in NodeOrText(handles) : append(p, child)
    \/ \E target \in handles : remove_from_parent(target)
    \/ \E node \in handles, np \in handles : reparent_children(node, np)

SpecMove == InitMove /\ [][NextMove]_vars

\* -------------------------------- runs that only create, append, reparent
InitReparent == InitWith(MaxReparentSteps)

NextReparent ==
    \/ \E name \in TagNames : create_element(name)
    \/ \E p \in handles : \E child \in NodeOrText(handles) : append(p, child)
    \/ \E node \in handles, np \in handles : reparent_children(node, np)

SpecReparent == InitReparent /\ [][NextReparent]_vars

\* ------------------------------ runs that call the Node functions directly
\* Node::new called by the program itself, which keeps the Rc
call_new(kd, dt) ==
    /\ CanAlloc(Heap)
    /\ Commit(Node_new(Heap, kd, dt), handles \cup {FreshId(Heap)})
    /\ last' = Op("new", FreshId(Heap), NoNode, NoNode, dt)
    /\ UNCHANGED <<quirks_mode, panicked>>

\* Node::append_child called with any three Rc the program holds
call_append_child(p, c) ==
    /\ Commit(append_child(Heap, p, c), handles)
    /\ last' = Op("append_child", p, c, NoNode, <<>>)
    /\ UNCHANGED <<quirks_mode, panicked>>

\* Node::insert_before called with any three Rc the program holds
call_insert_before(p, c, r) ==
    /\ Commit(insert_before(Heap, p, c, r), handles)
    /\ last' = Op("insert_before", p, c, r, <<>>)
    /\ UNCHANGED <<quirks_mode, panicked>>

\* Node::remove_child called with any two Rc the program holds
call_remove_child(p, c) ==
    /\ Commit(remove_child(Heap, p, c), handles)
    /\ last' = Op("remove_child", p, c, NoNode, <<>>)
    /\ UNCHANGED <<quirks_mode, panicked>>

InitNode == InitWith(MaxNodeSteps)

NextAttach ==
    \/ \E dt \in TagNames : call_new("Element", dt)
    \/ \E dt \in Texts : call_new("Text", dt)
    \/ \E p \in handles, c \in handles : call_append_child(p, c)
    \/ \E p \in handles, c \in handles, r \in handles : call_insert_before(p, c, r)

\* only append_child and insert_before edit the graph
SpecAttach == InitNode /\ [][NextAttach]_vars

NextNode ==
    \/ \E dt \in TagNames : call_new("Element", dt)
    \/ \E dt \in Texts : call_new("Text", dt)
    \/ \E p \in handles, c \in handles : call_append_child(p, c)
    \/ \E p \in handles, c \in handles, r \in handles : call_insert_before(p, c, r)
    \/ \E p \in handles, c \in handles : call_remove_child(p, c)

SpecNode == InitNode /\ [][NextNode]_vars

TypeOK ==
    /\ kind \in [Ids -> {"Free", "Freed", "Document", "Element", "Text", "Comment", "Doctype"}]
    /\ \A n \in Ids : parent[n] \in Ids \cup {NoNode}
    /\ \A n \in Ids : Range(children[n]) \subseteq Ids
    /\ handles \subseteq Ids
    /\ panicked \in BOOLEAN

\* ================================================================ claims
Live == Allocated(Heap)

\* C1: after any sequence of sink mutations, a node whose parent
\* back-reference is present is held by the children of that parent, and by
\* the children of no other node.
C1_ParentIsUniqueOwner ==
    \A n \in Live :
        parent[n] # NoNode =>
            /\ n \in Range(children[parent[n]])
            /\ \A m \in Live : n \in Range(children[m]) => m = parent[n]

\* C2: after any sequence of append_child and insert_before calls, the parent
\* back-reference of every node that has been attached resolves to exactly
\* the one node whose children hold it.
C2_AttachRoundTrip ==
    \A n \in Live :
        (parent[n] # NoNode \/ Owners(Heap, n) # {}) =>
            Owners(Heap, n) = {upgrade(Heap, n)}

\* C3: two or more append(parent, text) calls made back to back leave the
\* parent with the children it had before them and, last, one Text child
\* whose contents are the fragments in call order, after the contents of the
\* Text child the parent ended with when the first call was made, if any.
C3_TextRunCoalesces ==
    (last.op = "append" /\ last.run >= 2) =>
        LET ch == children[last.x]
        IN  /\ Len(ch) = Len(last.before) + 1
            /\ Front(ch) = last.before
            /\ kind[ch[Len(ch)]] = "Text"
            /\ data[ch[Len(ch)]] = last.base \o last.frags

\* a run of two fragments was appended after an existing non-text child
C3_Witness ==
    /\ last.op = "append"
    /\ last.run >= 2
    /\ last.before # <<>>
    /\ Len(last.frags) >= 2

\* two Text nodes side by side in the children of n
AdjacentText(n) ==
    \E i \in 1..(Len(children[n]) - 1) :
        kind[children[n][i]] = "Text" /\ kind[children[n][i + 1]] = "Text"

\* C4: the creation and append operations never leave two Text nodes at
\* consecutive positions of a children sequence.
C4_NoAdjacentText == \A n \in Live : ~AdjacentText(n)

\* text was appended to a parent whose last child was a Text node
C4_Witness ==
    \E n \in Live :
        /\ last.op = "append"
        /\ last.y = NoNode
        /\ Len(children[n]) >= 2
        /\ n = last.x
        /\ kind[children[n][Len(children[n])]] = "Text"
        /\ Len(data[children[n][Len(children[n])]]) >= 2

\* C5: append_before_sibling(sibling, text) merges the text into a Text node
\* that immediately precedes sibling, and inserts a new Text node immediately
\* before sibling otherwise.
C5_BeforeSiblingMergesText ==
    [][(last'.op = "append_before_sibling" /\ ~panicked' /\ last'.y = NoNode) =>
        LET s   == last'.x
            t   == last'.text
            old == children[upgrade(Heap, s)]
            new == children'[upgrade(Heap, s)]
            pos == position(old, s)
        IN  pos # 0 =>
              IF pos > 1 /\ kind[old[pos - 1]] = "Text"
              THEN /\ Len(new) = Len(old)
                   /\ new[pos] = s
                   /\ kind'[new[pos - 1]] = "Text"
                   /\ data'[new[pos - 1]] = data[old[pos - 1]] \o t
              ELSE /\ Len(new) = Len(old) + 1
                   /\ new[pos + 1] = s
                   /\ kind'[new[pos]] = "Text"
                   /\ data'[new[pos]] = t]_vars

\* C6: append_before_sibling on a sibling that no children sequence holds
\* fails fatally and changes no children sequence and no parent reference.
C6_UnattachedSiblingFails ==
    [][(last'.op = "append_before_sibling" /\ Owners(Heap, last'.x) = {}) =>
        (panicked' /\ children' = children /\ parent' = parent)]_vars

\* C7: insert_before(parent, child, reference) does not fail, sets
\* child.parent to parent and adds exactly one entry, child, to
\* parent.children: immediately before reference when reference occurs
\* there, last otherwise; the entries already there keep their order.
C7_InsertBefore ==
    [][last'.op = "insert_before" =>
        LET p   == last'.x
            c   == last'.y
            r   == last'.z
            old == children[p]
            new == children'[p]
        IN  /\ ~panicked'
            /\ parent'[c] = p
            /\ Len(new) = Len(old) + 1
            /\ IF r \in Range(old)
               THEN \E i \in 1..Len(old) :
                        new[i] = c /\ new[i + 1] = r /\ RemoveAt(new, i) = old
               ELSE new[Len(new)] = c /\ Front(new) = old]_vars

\* insert_before has put a child immediately before a reference that is not
\* the last child and not the child itself
C7_Witness ==
    /\ last.op = "insert_before"
    /\ last.y # last.z
    /\ \E i \in 1..(Len(children[last.x]) - 2) :
           children[last.x][i] = last.y /\ children[last.x][i + 1] = last.z

\* C8 as stated: reparent_children(node, new_parent) leaves node without
\* children for any two handles, appends the former children of node to
\* those of new_parent in order, and makes new_parent their parent.
C8_ReparentAnyHandles ==
    [][last'.op = "reparent_children" =>
        LET node  == last'.x
            np    == last'.y
            moved == children[node]
        IN  /\ children'[node] = <<>>
            /\ children'[np] = children[np] \o moved
            /\ \A c \in Range(moved) : parent'[c] = np]_vars

\* C8, amended: the above for node # new_parent; reparent_children(node, node)
\* leaves the children of node as they were, with node as their parent.
C8_Reparent ==
    [][last'.op = "reparent_children" =>
        LET node  == last'.x
            np    == last'.y
            moved == children[node]
        IN  /\ node # np => /\ children'[node] = <<>>
                            /\ children'[np] = children[np] \o moved
            /\ node = np => children'[node] = moved
            /\ \A c \in Range(moved) : parent'[c] = np
            /\ \A n \in Ids \ {node, np} : children'[n] = children[n]]_vars

\* two or more children were moved behind the children of another node
C8_Witness ==
    /\ last.op = "reparent_children"
    /\ last.x # last.y
    /\ Len(last.before) >= 2
    /\ children[last.x] = <<>>
    /\ Len(children[last.y]) > Len(last.before)

\* C9: remove_from_parent(n), for n attached under P, followed by
\* append_child(Q, n) for another node Q leaves n in the children of Q and
\* of no other node, and Q as the parent of n.
C9_DetachThenAttach ==
    [][(/\ last.op = "remove_from_parent"
        /\ last.z # NoNode
        /\ last.z \in last.owners
        /\ last'.op = "append"
        /\ last'.y = last.x
        /\ last'.x # last.z) =>
        LET n == last.x
            P == last.z
            Q == last'.x
        IN  /\ {m \in Ids : kind'[m] \notin {"Free", "Freed"} /\ n \in Range(children'[m])} = {Q}
            /\ n \notin Range(children'[P])
            /\ parent'[n] = Q]_vars

RECURSIVE Without(_, _)
\* s without its entries equal to x
Without(s, x) ==
    IF s = <<>> THEN <<>>
    ELSE IF Head(s) = x THEN Without(Tail(s), x)
    ELSE <<Head(s)>> \o Without(Tail(s), x)

InitDetach == InitWith(MaxDetachSteps)

NextDetach ==
    \/ \E name \in TagNames : create_element(name)
    \/ \E p \in handles : \E child \in NodeOrText(handles) : append(p, child)
    \/ \E target \in handles : remove_from_parent(target)
    \/ \E h \in handles \ {Root} : drop_handle(h)

SpecDetach == InitDetach /\ [][NextDetach]_vars

\* C11: remove_from_parent does not fail; on a target that was never
\* attached it changes nothing; called a second time in a row on the same
\* target it changes no children sequence and no parent reference.
C11_RemoveFromParentIdempotent ==
    [][last'.op = "remove_from_parent" =>
        /\ ~panicked'
        /\ (parent[last'.x] = NoNode /\ Owners(Heap, last'.x) = {}) =>
               (children' = children /\ parent' = parent /\ kind' = kind /\ data' = data)
        /\ (last.op = "remove_from_parent" /\ last.x = last'.x) =>
               (children' = children /\ parent' = parent /\ kind' = kind /\ data' = data)]_vars

\* remove_from_parent was called on a target that an earlier call had taken
\* out of its parent: the parent reference resolved and no node held the target
C11_Witness ==
    /\ last.op = "remove_from_parent"
    /\ last.z # NoNode
    /\ last.owners = {}
    /\ children[last.z] # <<>>

\* ------------- runs that create and append while the program keeps clones
\* ------------- of the Rc it finds in children vectors (Node.children is pub)
\* the handles the sink has returned: get_document and create_* never
\* return a Text or Doctype node
SinkHandles == {h \in handles : kind[h] \in {"Document", "Element", "Comment"}}

\* Rc::clone of an entry of a children vector
hold(n) ==
    /\ ~panicked
    /\ n \notin handles
    /\ \E m \in Allocated(Heap) : n \in Range(children[m])
    /\ Commit(Heap, handles \cup {n})
    /\ last' = Op("hold", n, NoNode, NoNode, <<>>)
    /\ UNCHANGED <<quirks_mode, panicked>>

InitHold == InitWith(MaxHoldSteps)

NextHold ==
    \/ \E name \in TagNames : create_element(name)
    \/ \E p \in SinkHandles : \E child \in NodeOrText(SinkHandles) : append(p, child)
    \/ \E n \in Ids : hold(n)

SpecHold == InitHold /\ [][NextHold]_vars

\* C12: when append(parent, text) finds a Text node T as the last child, T
\* is taken out of parent.children and keeps its contents, the last child
\* becomes a node that was not allocated before, holding the contents of T
\* followed by the text, and the other children of parent stay as they were.
C12_MergeReplaces ==
    [][(/\ last'.op = "append"
        /\ last'.y = NoNode
        /\ children[last'.x] # <<>>
        /\ kind[children[last'.x][Len(children[last'.x])]] = "Text") =>
        LET p   == last'.x
            old == children[p]
            new == children'[p]
            T   == old[Len(old)]
            N   == new[Len(new)]
        IN  /\ Len(new) = Len(old)
            /\ Front(new) = Front(old)
            /\ T \notin Range(new)
            /\ N # T
            /\ kind[N] = "Free"
            /\ kind'[N] = "Text"
            /\ data'[N] = data[T] \o last'.text
            /\ T \in handles => (kind'[T] = "Text" /\ data'[T] = data[T])]_vars

\* text was merged while the program held the Text node that was the last
\* child: that node is detached and still holds its own contents
C12_Witness ==
    /\ last.op = "append"
    /\ last.y = NoNode
    /\ \E T \in handles :
           /\ kind[T] = "Text"
           /\ Owners(Heap, T) = {}
           /\ parent[T] = last.x
           /\ children[last.x] # <<>>
           /\ data[children[last.x][Len(children[last.x])]] = data[T] \o last.text

\* C13: the Document root occurs in no children sequence and its parent
\* reference is absent, in every state the sink operations can reach.
C13_RootIsNoChild ==
    /\ parent[Root] = NoNode
    /\ \A n \in Live : Root \notin Range(children[n])

\* the nodes that the nodes of S reach through children vectors, S included
RECURSIVE Closure(_, _)
Closure(H, S) ==
    LET T == S \cup UNION {Range(H.children[m]) : m \in S}
    IN  IF T = S THEN S ELSE Closure(H, T)

\* the nodes below n: its children, their children, and so on
Below(H, n) == Closure(H, Range(H.children[n]))

\* C17: the children relation stays acyclic: no node is below itself.
C17_Acyclic == \A n \in Live : n \notin Below(Heap, n)

\* C19: remove_from_parent and reparent_children preserve the invariant of
\* C4: called in a state where no children sequence holds two adjacent Text
\* nodes, they leave a state where none does.
C19_MovesKeepTextApart ==
    [][(/\ last'.op \in {"remove_from_parent", "reparent_children"}
        /\ \A n \in Live : ~AdjacentText(n)) =>
       (\A n \in Live : ~AdjacentText(n))']_vars

\* ------------- runs that mix append with the operations that create nodes or
\* ------------- only answer questions
InitQuiet == InitWith(MaxQuietSteps)

NextQuiet ==
    \/ get_document
    \/ \E name \in TagNames : create_element(name)
    \/ \E text \in CommentTexts : create_comment(text)
    \/ \E target \in Texts, pidata \in Texts : create_pi(target, pidata)
    \/ \E p \in handles : \E child \in NodeOrText(handles) : append(p, child)
    \/ \E target \in handles : get_template_contents(target)
    \/ \E x \in handles, y \in handles : same_node(x, y)
    \/ \E mode \in QuirksModes : set_quirks_mode(mode)
    \/ \E target \in handles : add_attrs_if_missing(target)
    \/ parse_error

SpecQuiet == InitQuiet /\ [][NextQuiet]_vars

\* the operations of the sink that do not restructure the tree
NonStructural ==
    {"set_quirks_mode", "add_attrs_if_missing", "parse_error",
     "get_template_contents", "same_node", "get_document",
     "create_element", "create_comment", "create_pi"}

\* C16: the non-structural operations leave children and parent of every
\* existing node as they were; the create operations return a node that did
\* not exist, with no parent and no children; get_template_contents returns
\* the handle it was given.
C16_NonStructural ==
    [][last'.op \in NonStructural =>
        /\ \A n \in Live : /\ children'[n] = children[n]
                           /\ parent'[n] = parent[n]
                           /\ kind'[n] = kind[n]
        /\ last'.op \in {"create_element", "create_comment", "create_pi"} =>
               /\ last'.x \notin Live
               /\ last'.x \in handles'
               /\ kind'[last'.x] \in {"Element", "Comment"}
               /\ parent'[last'.x] = NoNode
               /\ children'[last'.x] = <<>>
        /\ last'.op = "get_template_contents" => last'.y = last'.x]_vars

\* a processing instruction was created while the document had children and
\* another node was attached below the root
C16_Witness ==
    /\ last.op = "create_pi"
    /\ kind[last.x] = "Comment"
    /\ children[Root] # <<>>
    /\ \E n \in Live \ {Root} : parent[n] = Root

\* ------------------------------------------------------------- traversals
\* a traversal returns its output, or exhausts the stack (ok = FALSE)
Returned(out) == [ok |-> TRUE, out |-> out]
StackOverflow == [ok |-> FALSE, out |-> <<>>]

\* Node::collect_text with d frames left; the buffer is the output
RECURSIVE collect_text(_, _, _), collect_text_each(_, _, _)
collect_text(H, n, d) ==
    IF d = 0 THEN StackOverflow
    ELSE IF H.kind[n] = "Text" THEN Returned(H.data[n])
    ELSE collect_text_each(H, H.children[n], d - 1)

\* the loop of collect_text over the children vector
collect_text_each(H, cs, d) ==
    IF cs = <<>> THEN Returned(<<>>)
    ELSE LET a == collect_text(H, Head(cs), d)
         IN  IF ~a.ok THEN a
             ELSE LET b == collect_text_each(H, Tail(cs), d)
                  IN  [ok |-> b.ok, out |-> a.out \o b.out]

\* the contents of the Text nodes of cs, one after the other
RECURSIVE OwnText(_, _)
OwnText(H, cs) ==
    IF cs = <<>> THEN <<>>
    ELSE (IF H.kind[Head(cs)] = "Text" THEN H.data[Head(cs)] ELSE <<>>)
         \o OwnText(H, Tail(cs))

get_text_content_shallow(H, n) ==
    IF H.kind[n] = "Text" THEN Returned(H.data[n])
    ELSE Returned(OwnText(H, H.children[n]))

\* Node::get_text_content
get_text_content(H, n) == collect_text(H, n, StackDepth)

\* Node::walk with d frames left; the output is the nodes visited, in order
RECURSIVE walk(_, _, _), walk_each(_, _, _)
walk(H, n, d) ==
    IF d = 0 THEN StackOverflow
    ELSE LET r == walk_each(H, H.children[n], d - 1)
         IN  [ok |-> r.ok, out |-> <<n>> \o r.out]

\* the loop of walk over the children vector
walk_each(H, cs, d) ==
    IF cs = <<>> THEN Returned(<<>>)
    ELSE LET a == walk(H, Head(cs), d)
         IN  IF ~a.ok THEN a
             ELSE LET b == walk_each(H, Tail(cs), d)
                  IN  [ok |-> b.ok, out |-> a.out \o b.out]

\* u8::to_ascii_lowercase on the letters the names are made of
to_ascii_lowercase(c) ==
    CASE c = "P" -> "p"
      [] c = "Q" -> "q"
      [] OTHER -> c

eq_exact(a, b) == a = b

\* str::eq_ignore_ascii_case
eq_ignore_ascii_case(a, b) ==
    /\ Len(a) = Len(b)
    /\ \A i \in 1..Len(a) : to_ascii_lowercase(a[i]) = to_ascii_lowercase(b[i])

\* Document::collect_elements_by_tag_name with d frames left
RECURSIVE collect_elements_by_tag_name(_, _, _, _), collect_elements_each(_, _, _, _)
collect_elements_by_tag_name(H, node, tag_name, d) ==
    IF d = 0 THEN StackOverflow
    ELSE LET own == IF H.kind[node] = "Element" /\ eq_ignore_ascii_case(H.data[node], tag_name)
                    THEN <<node>> ELSE <<>>
             r   == collect_elements_each(H, H.children[node], tag_name, d - 1)
         IN  [ok |-> r.ok, out |-> own \o r.out]

\* the loop of collect_elements_by_tag_name over the children vector
collect_elements_each(H, cs, tag_name, d) ==
    IF cs = <<>> THEN Returned(<<>>)
    ELSE LET a == collect_elements_by_tag_name(H, Head(cs), tag_name, d)
         IN  IF ~a.ok THEN a
             ELSE LET b == collect_elements_each(H, Tail(cs), tag_name, d)
                  IN  [ok |-> b.ok, out |-> a.out \o b.out]

\* Document::get_elements_by_tag_name
get_elements_by_tag_name(H, tag_name) ==
    collect_elements_by_tag_name(H, Root, tag_name, StackDepth)

\* a call of node.get_text_content(); the thread dies when the stack runs out
call_get_text_content(n) ==
    /\ ~panicked
    /\ n \in Allocated(Heap)
    /\ panicked' = ~get_text_content(Heap, n).ok
    /\ last' = Op("get_text_content", n, NoNode, NoNode, get_text_content(Heap, n).out)
    /\ UNCHANGED <<kind, data, parent, children, handles, quirks_mode, fuel>>

\* a call of node.walk(visitor)
call_walk(n) ==
    /\ ~panicked
    /\ n \in Allocated(Heap)
    /\ panicked' = ~walk(Heap, n, StackDepth).ok
    /\ last' = [Op("walk", n, NoNode, NoNode, <<>>)
                   EXCEPT !.before = walk(Heap, n, StackDepth).out]
    /\ UNCHANGED <<kind, data, parent, children, handles, quirks_mode, fuel>>

\* a call of document.get_elements_by_tag_name(tag_name)
call_get_elements_by_tag_name(tag_name) ==
    /\ ~panicked
    /\ panicked' = ~get_elements_by_tag_name(Heap, tag_name).ok
    /\ last' = [Op("get_elements_by_tag_name", Root, NoNode, NoNode, tag_name)
                   EXCEPT !.before = get_elements_by_tag_name(Heap, tag_name).out]
    /\ UNCHANGED <<kind, data, parent, children, handles, quirks_mode, fuel>>

InitText == InitWith(MaxTextSteps)

NextText ==
    \/ \E name \in TagNames : create_element(name)
    \/ \E p \in handles : \E child \in NodeOrText(handles) : append(p, child)
    \/ \E n \in Ids : call_get_text_content(n)

SpecText == InitText /\ [][NextText]_vars

InitTag == InitWith(MaxTagSteps)

NextTag ==
    \/ \E name \in QueryNames : create_element(name)
    \/ \E p \in handles : \E n \in handles : append(p, AppendNode(n))
    \/ \E tag_name \in QueryNames : call_get_elements_by_tag_name(tag_name)

SpecTag == InitTag /\ [][NextTag]_vars

InitTraverse == InitWith(MaxTraverseSteps)

NextTraverse ==
    \/ \E name \in TagNames : create_element(name)
    \/ \E p \in handles : \E child \in NodeOrText(handles) : append(p, child)
    \/ \E n \in Ids : call_get_text_content(n)
    \/ \E n \in Ids : call_walk(n)
    \/ \E tag_name \in TagNames : call_get_elements_by_tag_name(tag_name)

SpecTraverse == InitTraverse /\ [][NextTraverse]_vars

\* n and the nodes below it
Sub(H, n) == {n} \cup Below(H, n)

\* the nodes at and below n form a tree: n is below no node of it and every
\* other node occurs once, in one children sequence
TreeAt(H, n) ==
    /\ n \notin Below(H, n)
    /\ \A m \in Sub(H, n) :
           \A i, j \in 1..Len(H.children[m]) :
               H.children[m][i] = H.children[m][j] => i = j
    /\ \A m1, m2 \in Sub(H, n) :
           m1 # m2 => Range(H.children[m1]) \cap Range(H.children[m2]) = {}

\* a comes before b in the document order of the tree whose nodes are S: b is
\* below a, or a is at or below an earlier sibling of a node that b is at or below
DocBefore(H, S, a, b) ==
    /\ a # b
    /\ \/ b \in Below(H, a)
       \/ \E m \in S : \E i, j \in 1..Len(H.children[m]) :
              /\ i < j
              /\ a \in Sub(H, H.children[m][i])
              /\ b \in Sub(H, H.children[m][j])

\* the nodes of T, a set of nodes of the tree S, in document order
RECURSIVE Ordered(_, _, _)
Ordered(H, S, T) ==
    IF T = {} THEN <<>>
    ELSE LET f == CHOOSE x \in T : \A y \in T \ {x} : DocBefore(H, S, x, y)
         IN  <<f>> \o Ordered(H, S, T \ {f})

\* the contents of the nodes of ns, one after the other
RECURSIVE ConcatData(_, _)
ConcatData(H, ns) ==
    IF ns = <<>> THEN <<>> ELSE H.data[Head(ns)] \o ConcatData(H, Tail(ns))

\* two names are equal once upper and lower case letters are identified
SameFolded(a, b) ==
    /\ Len(a) = Len(b)
    /\ \A i \in 1..Len(a) :
           a[i] = b[i] \/ {a[i], b[i]} \in {{"p", "P"}, {"q", "Q"}}

\* C14: on a document that is a tree, get_elements_by_tag_name(tag) returns
\* the Element nodes at or below the root whose local name equals tag up to
\* the case of ASCII letters, each once, in document order, and changes
\* nothing in the tree.
C14_ElementsByTagName ==
    [][(last'.op = "get_elements_by_tag_name" /\ TreeAt(Heap, Root)) =>
        /\ ~panicked'
        /\ last'.before =
               Ordered(Heap, Sub(Heap, Root),
                       {n \in Sub(Heap, Root) :
                            kind[n] = "Element" /\ SameFolded(data[n], last'.text)})
        /\ UNCHANGED <<kind, data, parent, children>>]_vars

\* a search for p returned an element named p and then the element named P
\* that is its child
C14_Witness ==
    /\ last.op = "get_elements_by_tag_name"
    /\ ~panicked
    /\ TreeAt(Heap, Root)
    /\ last.text = <<"p">>
    /\ Len(last.before) = 2
    /\ data[last.before[1]] = <<"p">>
    /\ data[last.before[2]] = <<"P">>
    /\ parent[last.before[2]] = last.before[1]

\* C15: for a node whose subtree is a tree, get_text_content returns the
\* contents of the Text nodes at and below the node, concatenated in
\* document order.
C15_TextContent ==
    [][(last'.op = "get_text_content" /\ TreeAt(Heap, last'.x)) =>
        /\ ~panicked'
        /\ last'.text =
               ConcatData(Heap,
                   Ordered(Heap, Sub(Heap, last'.x),
                           {t \in Sub(Heap, last'.x) : kind[t] = "Text"}))]_vars

\* the text of the document was read while it held a Text node below an
\* element followed by a Text node below the root
C15_Witness ==
    /\ last.op = "get_text_content"
    /\ ~panicked
    /\ last.x = Root
    /\ TreeAt(Heap, Root)
    /\ last.text = <<"a", "b">>
    /\ \E t \in Sub(Heap, Root) : kind[t] = "Text" /\ parent[t] # Root
    /\ \E t \in Range(children[Root]) : kind[t] = "Text"

\* C18: walk, get_text_content and get_elements_by_tag_name return when they
\* are started at a node of the document the sink has built.
C18_TraversalsReturn ==
    [][(/\ last'.op \in {"walk", "get_text_content", "get_elements_by_tag_name"}
        /\ last'.x \in Sub(Heap, Root)) => ~panicked']_vars

====
